---- MODULE Spec2Model ----
(***************************************************************************)
(* Model of the interactive browse session of arf (src/src/main.rs):       *)
(* struct App and its operations, the changeset-line classifier inside     *)
(* App::update_diff, and the read/dispatch/redraw loop of cmd_browse.      *)
(*                                                                         *)
(* Text is a sequence of one-character strings; a Rust Option is a         *)
(* sequence of length 0 (None) or 1 (Some); indices are 0-based as in the  *)
(* source, so commit i is commits[i + 1].                                  *)
(***************************************************************************)
EXTENDS Integers, Sequences, FiniteSets, TLC

\* Bounds of the model.
MaxCommits == 3
MaxDiffLines == 12

\* The page step of page_down / page_up.
PageStep == 10

Min(a, b) == IF a < b THEN a ELSE b
Max(a, b) == IF a > b THEN a ELSE b

\* usize::saturating_sub
SaturatingSub(a, b) == IF a > b THEN a - b ELSE 0

\* str::starts_with
StartsWith(line, prefix) ==
    /\ Len(line) >= Len(prefix)
    /\ SubSeq(line, 1, Len(prefix)) = prefix

\* Removes one trailing carriage return, as str::lines does for a line that
\* ended in "\r\n".
StripCR(line) ==
    IF Len(line) > 0 /\ line[Len(line)] = "\r"
    THEN SubSeq(line, 1, Len(line) - 1)
    ELSE line

\* str::lines: split at "\n" (or "\r\n"); a last line without a newline is
\* kept as it is, and nothing follows a final newline.
RECURSIVE SplitLines(_, _, _)
SplitLines(text, i, cur) ==
    IF i > Len(text)
    THEN IF cur = <<>> THEN <<>> ELSE <<cur>>
    ELSE IF text[i] = "\n"
         THEN <<StripCR(cur)>> \o SplitLines(text, i + 1, <<>>)
         ELSE SplitLines(text, i + 1, Append(cur, text[i]))

Lines(text) == SplitLines(text, 1, <<>>)

\* ratatui Style values the classifier uses.
StyleDefault == [fg |-> "None", bold |-> FALSE]
StyleGreen == [fg |-> "Green", bold |-> FALSE]
StyleRed == [fg |-> "Red", bold |-> FALSE]
StyleCyan == [fg |-> "Cyan", bold |-> FALSE]
StyleYellowBold == [fg |-> "Yellow", bold |-> TRUE]
StyleYellow == [fg |-> "Yellow", bold |-> FALSE]

\* The chain without the exclusion of "+++" and "---" in its first two tests.
LineStyle_NoExclusion(line) ==
    IF StartsWith(line, <<"+">>)
    THEN StyleGreen
    ELSE IF StartsWith(line, <<"-">>)
    THEN StyleRed
    ELSE IF StartsWith(line, <<"@", "@">>)
    THEN StyleCyan
    ELSE IF \/ StartsWith(line, <<"d", "i", "f", "f", " ">>)
            \/ StartsWith(line, <<"i", "n", "d", "e", "x", " ">>)
    THEN StyleYellowBold
    ELSE StyleDefault

\* The if / else-if chain of update_diff, in the order of the source.
LineStyle(line) ==
    IF StartsWith(line, <<"+">>) /\ ~StartsWith(line, <<"+", "+", "+">>)
    THEN StyleGreen
    ELSE IF StartsWith(line, <<"-">>) /\ ~StartsWith(line, <<"-", "-", "-">>)
    THEN StyleRed
    ELSE IF StartsWith(line, <<"@", "@">>)
    THEN StyleCyan
    ELSE IF \/ StartsWith(line, <<"d", "i", "f", "f", " ">>)
            \/ StartsWith(line, <<"i", "n", "d", "e", "x", " ">>)
    THEN StyleYellowBold
    ELSE IF \/ StartsWith(line, <<"+", "+", "+">>)
            \/ StartsWith(line, <<"-", "-", "-">>)
    THEN StyleYellow
    ELSE StyleDefault

\* The for loop of update_diff: one DiffLine per line of the content.
ParseLines(content) ==
    LET ls == Lines(content)
    IN  [k \in 1..Len(ls) |-> [content |-> ls[k], style |-> LineStyle(ls[k])]]

\* "Failed to get diff"
FailedToGetDiff ==
    <<"F", "a", "i", "l", "e", "d", " ", "t", "o", " ",
      "g", "e", "t", " ", "d", "i", "f", "f">>

\* A failed git that leaves the pane without any line.
DiffContent_EmptyOnFailure(output) ==
    IF output.ok /\ output.success THEN output.stdout ELSE <<>>

\* Content of the changeset text: stdout of a successful git, else the
\* failure message.
DiffContent(output) ==
    IF output.ok /\ output.success THEN output.stdout ELSE FailedToGetDiff

\* ---------------------------------------------------------------------
\* What git may answer to "git show" (the version-control backend).

\* A text of n lines, cycling through an added, a removed and a context line.
RECURSIVE LongText(_)
LongText(n) ==
    IF n = 0 THEN <<>>
    ELSE LongText(n - 1) \o
         (CASE n % 3 = 1 -> <<"+", "a", "\n">>
            [] n % 3 = 2 -> <<"-", "b", "\n">>
            [] OTHER     -> <<" ", "c", "\n">>)

\* "+++ b\n+a\n-r\n@@ -1\n"
PatchText ==
    <<"+", "+", "+", " ", "b", "\n", "+", "a", "\n", "-", "r", "\n",
      "@", "@", " ", "-", "1", "\n">>

\* "diff a\r\nindex 1\n--- a\n\n x": CRLF, an empty line, no final newline
HeaderText ==
    <<"d", "i", "f", "f", " ", "a", "\r", "\n",
      "i", "n", "d", "e", "x", " ", "1", "\n",
      "-", "-", "-", " ", "a", "\n", "\n", " ", "x">>

\* stdout of git show: nothing at all (an empty commit), one line, a patch,
\* headers, and a text long enough to page through.
GitStdouts ==
    {<<>>, <<" ", "1", "\n">>, PatchText, HeaderText, LongText(MaxDiffLines)}

\* Result of Command::output(): the spawn may fail (ok = FALSE), git may exit
\* with a failure status, or it succeeds with some stdout.
GitOutputs ==
    {[ok |-> FALSE, success |-> FALSE, stdout |-> <<>>],
     [ok |-> TRUE, success |-> FALSE, stdout |-> <<>>]}
    \cup {[ok |-> TRUE, success |-> TRUE, stdout |-> t] : t \in GitStdouts}

\* Key codes the terminal may deliver; "x" stands for any unbound key.
KeyCodes ==
    {"q", "Esc", "Down", "j", "Up", "k", "d", "Tab", "Enter",
     "PageDown", "f", "PageUp", "b", "x"}

KeyEvent(code, kind) == [type |-> "Key", code |-> code, kind |-> kind]
NoEvent == [type |-> "None", code |-> "", kind |-> ""]
ResizeEvent == [type |-> "Resize", code |-> "", kind |-> ""]

\* ---------------------------------------------------------------------
\* State

VARIABLES
    commits,      \* App.commits: sequence of CommitInfo
    list_state,   \* App.list_state.selected(): <<>> or <<i>>
    diff_mode,    \* App.diff_mode: "Hidden", "Stat", "Full"
    diff_lines,   \* App.diff_lines: sequence of DiffLine
    diff_scroll,  \* App.diff_scroll
    focus,        \* App.focus: "Commits", "Diff"
    should_quit,  \* App.should_quit
    pc,           \* position of cmd_browse
    event,        \* the input event the last loop iteration read
    git_calls,    \* argument lists of the git commands the last step ran
    last_fetch,   \* <<>> or <<[args, output]>>: the most recent git show
    run_op,       \* operation of the current run of equal operations
    run_len,      \* length of that run, modulo the period of the operation
    run_start,    \* selection and mode before the run began
    history,      \* what git log and git rev-parse deliver to cmd_browse
    store,        \* the directory .arf/records
    content,      \* the text update_diff parses, when parsed on its own
    raw_mode,     \* the terminal is in raw mode
    alt_screen    \* the terminal shows the alternate screen

appVars ==
    <<commits, list_state, diff_mode, diff_lines, diff_scroll, focus,
      should_quit>>
runVars == <<run_op, run_len, run_start>>
inputVars == <<history, store, content>>
envVars == <<history, store, content, raw_mode, alt_screen>>
vars ==
    <<commits, list_state, diff_mode, diff_lines, diff_scroll, focus,
      should_quit, pc, event, git_calls, last_fetch, run_op, run_len,
      run_start, history, store, content, raw_mode, alt_screen>>

\* The i-th commit of the history; its hash is an abstract identifier.
CommitInfo(i) ==
    [sha |-> ToString(i), short_sha |-> ToString(i), message |-> <<>>,
     records |-> <<>>]

\* Histories git log may deliver to a session that starts.
CommitLists == {[i \in 1..n |-> CommitInfo(i)] : n \in 1..MaxCommits}

NoRun == [selected |-> <<>>, mode |-> "Hidden"]

\* A session taken on its own: no history read, no record store, no text.
NoHistory == [ok |-> TRUE, lines |-> <<>>]
NoStore == [state |-> "absent", dirs |-> {}]

\* The fields App::new(cs) sets.
AppNew(cs) ==
    /\ commits = cs
    /\ list_state = IF cs # <<>> THEN <<0>> ELSE <<>>
    /\ diff_mode = "Stat"
    /\ diff_lines = <<>>
    /\ diff_scroll = 0
    /\ focus = "Commits"
    /\ should_quit = FALSE

\* What is not part of App, before the session has done anything.
Untouched ==
    /\ event = NoEvent
    /\ git_calls = <<>>
    /\ last_fetch = <<>>
    /\ run_op = "none"
    /\ run_len = 0
    /\ run_start = NoRun

\* App::new(commits), and cmd_browse just after it.
Init ==
    /\ \E cs \in CommitLists : AppNew(cs)
    /\ pc = "new"
    /\ Untouched
    /\ history = NoHistory
    /\ store = NoStore
    /\ content = <<>>
    /\ raw_mode = TRUE
    /\ alt_screen = TRUE

\* App::new on any commit list, the empty one included: App as a unit.
InitApp ==
    /\ \E cs \in {<<>>} \cup CommitLists : AppNew(cs)
    /\ pc = "new"
    /\ Untouched
    /\ history = NoHistory
    /\ store = NoStore
    /\ content = <<>>
    /\ raw_mode = TRUE
    /\ alt_screen = TRUE

\* ---------------------------------------------------------------------
\* impl App

\* App::selected_commit with list_state.selected() = selected
selected_commit(selected) ==
    IF selected # <<>> /\ selected[1] < Len(commits)
    THEN <<commits[selected[1] + 1]>>
    ELSE <<>>

\* The git arguments update_diff builds for a mode and a hash.
ShowArgs(mode, sha) ==
    IF mode = "Full"
    THEN <<"show", "--format=", sha>>
    ELSE <<"show", "--stat", "--format=", sha>>

\* update_diff that returns on a hidden pane before it clears the lines.
update_diff_ReturnBeforeClear(mode, selected) ==
    IF mode = "Hidden"
    THEN /\ UNCHANGED diff_lines
         /\ git_calls' = <<>>
         /\ UNCHANGED last_fetch
    ELSE IF selected_commit(selected) = <<>>
    THEN /\ diff_lines' = <<>>
         /\ git_calls' = <<>>
         /\ UNCHANGED last_fetch
    ELSE \E output \in GitOutputs :
            LET args == ShowArgs(mode, selected_commit(selected)[1].sha)
            IN  /\ diff_lines' = ParseLines(DiffContent(output))
                /\ git_calls' = <<args>>
                /\ last_fetch' = <<[args |-> args, output |-> output]>>

\* App::update_diff, run with self.diff_mode = mode and the selection
\* selected (the values the caller has just assigned).
update_diff(mode, selected) ==
    IF mode = "Hidden" \/ selected_commit(selected) = <<>>
    THEN /\ diff_lines' = <<>>
         /\ git_calls' = <<>>
         /\ UNCHANGED last_fetch
    ELSE \E output \in GitOutputs :
            LET args == ShowArgs(mode, selected_commit(selected)[1].sha)
            IN  /\ diff_lines' = ParseLines(DiffContent(output))
                /\ git_calls' = <<args>>
                /\ last_fetch' = <<[args |-> args, output |-> output]>>

\* next that runs off the end of the list instead of wrapping.
NextSelected_NoWrap(selected, n) ==
    IF selected # <<>> THEN selected[1] + 1 ELSE 0

\* next that stops at the last commit instead of wrapping.
NextSelected_StopAtEnd(selected, n) ==
    IF selected # <<>> THEN Min(selected[1] + 1, n - 1) ELSE 0

\* The index App::next selects in the commit list of length n.
NextSelected(selected, n) ==
    IF selected # <<>> THEN (selected[1] + 1) % n ELSE 0

\* previous that stops at the first commit instead of wrapping.
PreviousSelected_StopAtStart(selected, n) ==
    IF selected # <<>> THEN SaturatingSub(selected[1], 1) ELSE 0

\* The index App::previous selects in the commit list of length n.
PreviousSelected(selected, n) ==
    IF selected # <<>>
    THEN IF selected[1] = 0 THEN n - 1 ELSE selected[1] - 1
    ELSE 0

\* next on the diff without the test against the last line.
NextScroll_Unguarded(scroll, len) == scroll + 1

\* diff_scroll after App::next with the focus on the diff, len lines.
NextScroll(scroll, len) ==
    IF scroll < SaturatingSub(len, 1) THEN scroll + 1 ELSE scroll

\* diff_scroll after App::previous with the focus on the diff.
PreviousScroll(scroll) == SaturatingSub(scroll, 1)

\* page_down without the clamp to the last line.
PageDownScroll_Unclamped(scroll, len) == scroll + PageStep

\* diff_scroll after App::page_down with the focus on the diff.
PageDownScroll(scroll, len) ==
    Min(scroll + PageStep, SaturatingSub(len, 1))

\* page_up that jumps to the top.
PageUpScroll_ToTop(scroll) == 0

\* diff_scroll after App::page_up with the focus on the diff.
PageUpScroll(scroll) == SaturatingSub(scroll, PageStep)

\* toggle_diff that goes from Full back to Stat.
CycleDiffMode_SkipHidden(mode) ==
    CASE mode = "Hidden" -> "Stat"
      [] mode = "Stat" -> "Full"
      [] mode = "Full" -> "Stat"

\* The match of App::toggle_diff.
CycleDiffMode(mode) ==
    CASE mode = "Hidden" -> "Stat"
      [] mode = "Stat" -> "Full"
      [] mode = "Full" -> "Hidden"

\* toggle_diff that leaves the focus where it is.
ToggleDiffFocus_Keep(mode, f) == f

\* focus after App::toggle_diff has set the mode to mode.
ToggleDiffFocus(mode, f) == IF mode = "Hidden" THEN "Commits" ELSE f

\* The match of App::toggle_focus.
SwapFocus(f) == IF f = "Commits" THEN "Diff" ELSE "Commits"

NoFetch == git_calls' = <<>> /\ UNCHANGED last_fetch

\* next without the early return on an empty commit list.
next_NoEmptyGuard ==
    IF focus = "Commits"
    THEN /\ list_state' = <<IF list_state # <<>> /\ commits # <<>>
                             THEN (list_state[1] + 1) % Len(commits)
                             ELSE 0>>
         /\ diff_scroll' = 0
         /\ update_diff(diff_mode, list_state')
         /\ UNCHANGED <<commits, diff_mode, focus, should_quit>>
    ELSE /\ diff_scroll' = NextScroll(diff_scroll, Len(diff_lines))
         /\ UNCHANGED <<commits, list_state, diff_mode, diff_lines, focus,
                        should_quit>>
         /\ NoFetch

\* App::next
next ==
    IF focus = "Commits"
    THEN IF commits = <<>>
         THEN UNCHANGED appVars /\ NoFetch
         ELSE /\ list_state' = <<NextSelected(list_state, Len(commits))>>
              /\ diff_scroll' = 0
              /\ update_diff(diff_mode, list_state')
              /\ UNCHANGED <<commits, diff_mode, focus, should_quit>>
    ELSE /\ diff_scroll' = NextScroll(diff_scroll, Len(diff_lines))
         /\ UNCHANGED <<commits, list_state, diff_mode, diff_lines, focus,
                        should_quit>>
         /\ NoFetch

\* previous that moves the selection without regenerating the diff.
previous_NoUpdate ==
    IF focus = "Commits"
    THEN IF commits = <<>>
         THEN UNCHANGED appVars /\ NoFetch
         ELSE /\ list_state' = <<PreviousSelected(list_state, Len(commits))>>
              /\ diff_scroll' = 0
              /\ UNCHANGED <<commits, diff_mode, diff_lines, focus,
                             should_quit>>
              /\ NoFetch
    ELSE /\ diff_scroll' = PreviousScroll(diff_scroll)
         /\ UNCHANGED <<commits, list_state, diff_mode, diff_lines, focus,
                        should_quit>>
         /\ NoFetch

\* App::previous
previous ==
    IF focus = "Commits"
    THEN IF commits = <<>>
         THEN UNCHANGED appVars /\ NoFetch
         ELSE /\ list_state' = <<PreviousSelected(list_state, Len(commits))>>
              /\ diff_scroll' = 0
              /\ update_diff(diff_mode, list_state')
              /\ UNCHANGED <<commits, diff_mode, focus, should_quit>>
    ELSE /\ diff_scroll' = PreviousScroll(diff_scroll)
         /\ UNCHANGED <<commits, list_state, diff_mode, diff_lines, focus,
                        should_quit>>
         /\ NoFetch

\* toggle_focus without the test of the mode.
toggle_focus_Unguarded ==
    /\ focus' = SwapFocus(focus)
    /\ UNCHANGED <<commits, list_state, diff_mode, diff_lines, diff_scroll,
                   should_quit>>
    /\ NoFetch

\* App::toggle_focus
toggle_focus ==
    /\ focus' = IF diff_mode # "Hidden" THEN SwapFocus(focus) ELSE focus
    /\ UNCHANGED <<commits, list_state, diff_mode, diff_lines, diff_scroll,
                   should_quit>>
    /\ NoFetch

\* toggle_diff that keeps the scroll offset.
toggle_diff_KeepScroll ==
    /\ diff_mode' = CycleDiffMode(diff_mode)
    /\ focus' = ToggleDiffFocus(diff_mode', focus)
    /\ update_diff(diff_mode', list_state)
    /\ UNCHANGED <<commits, list_state, should_quit, diff_scroll>>

\* App::toggle_diff
toggle_diff ==
    /\ diff_mode' = CycleDiffMode(diff_mode)
    /\ focus' = ToggleDiffFocus(diff_mode', focus)
    /\ diff_scroll' = 0
    /\ update_diff(diff_mode', list_state)
    /\ UNCHANGED <<commits, list_state, should_quit>>

\* App::page_down
page_down ==
    /\ diff_scroll' = IF focus = "Diff"
                      THEN PageDownScroll(diff_scroll, Len(diff_lines))
                      ELSE diff_scroll
    /\ UNCHANGED <<commits, list_state, diff_mode, diff_lines, focus,
                   should_quit>>
    /\ NoFetch

\* App::page_up
page_up ==
    /\ diff_scroll' = IF focus = "Diff"
                      THEN PageUpScroll(diff_scroll)
                      ELSE diff_scroll
    /\ UNCHANGED <<commits, list_state, diff_mode, diff_lines, focus,
                   should_quit>>
    /\ NoFetch

\* A quit that also gives the focus back to the commit list.
quit_ResetFocus ==
    /\ should_quit' = TRUE
    /\ focus' = "Commits"
    /\ UNCHANGED <<commits, list_state, diff_mode, diff_lines, diff_scroll>>
    /\ NoFetch

\* app.should_quit = true
quit ==
    /\ should_quit' = TRUE
    /\ UNCHANGED <<commits, list_state, diff_mode, diff_lines, diff_scroll,
                   focus>>
    /\ NoFetch

\* ---------------------------------------------------------------------
\* Bookkeeping of runs of one operation applied repeatedly (not program
\* state): run_len counts the applications modulo the period after which the
\* operation is expected to come back, count for next and 3 for toggle_diff.

RunPeriod(o) == IF o = "next" THEN Max(1, Len(commits)) ELSE 3

Track(o) ==
    IF o \in {"next", "toggle_diff"}
    THEN IF run_op = o
         THEN /\ run_len' = (run_len + 1) % RunPeriod(o)
              /\ UNCHANGED <<run_op, run_start>>
         ELSE /\ run_op' = o
              /\ run_len' = 1 % RunPeriod(o)
              /\ run_start' = [selected |-> list_state, mode |-> diff_mode]
    ELSE /\ run_op' = "none"
         /\ run_len' = 0
         /\ run_start' = NoRun

\* ---------------------------------------------------------------------
\* cmd_browse from App::new on

\* A loop entered without the update_diff before it.
InitialUpdateDiff_Skipped ==
    /\ pc = "new"
    /\ pc' = "draw"
    /\ UNCHANGED <<appVars, event, git_calls, last_fetch, runVars, envVars>>

\* app.update_diff() before the loop
InitialUpdateDiff ==
    /\ pc = "new"
    /\ update_diff(diff_mode, list_state)
    /\ pc' = "draw"
    /\ UNCHANGED <<commits, list_state, diff_mode, diff_scroll, focus,
                   should_quit, event, run_op, run_len, run_start, envVars>>

\* terminal.draw(|frame| ui(frame, &mut app))? succeeds
Draw ==
    /\ pc = "draw"
    /\ pc' = "read"
    /\ event' = NoEvent
    /\ git_calls' = <<>>
    /\ UNCHANGED <<appVars, last_fetch, runVars, envVars>>

\* terminal.draw(..)? fails: cmd_browse returns the error
DrawFail ==
    /\ pc = "draw"
    /\ pc' = "failed"
    /\ event' = NoEvent
    /\ git_calls' = <<>>
    /\ UNCHANGED <<appVars, last_fetch, runVars, envVars>>

\* event::read()? fails: cmd_browse returns the error
ReadFail ==
    /\ pc = "read"
    /\ pc' = "failed"
    /\ UNCHANGED <<appVars, event, git_calls, last_fetch, runVars, envVars>>

\* A loop that reads the next event without a redraw in between.
AfterDispatch_NoRedraw ==
    /\ pc' = IF should_quit' THEN "restore" ELSE "read"
    /\ UNCHANGED envVars

\* if app.should_quit { break; }; nothing outside the session is touched.
AfterDispatch ==
    /\ pc' = IF should_quit' THEN "restore" ELSE "draw"
    /\ UNCHANGED envVars

\* App::next panics where (i + 1) % self.commits.len() divides by zero; the
\* line is reached with the focus on a non-empty list and a selection.
NextPanics ==
    /\ focus = "Commits"
    /\ ~(commits = <<>>)
    /\ list_state # <<>>
    /\ Len(commits) = 0

\* App::previous panics where self.commits.len() - 1 underflows; the line is
\* reached with the focus on a non-empty list and Some(0) selected.
PreviousPanics ==
    /\ focus = "Commits"
    /\ ~(commits = <<>>)
    /\ list_state = <<0>>
    /\ Len(commits) < 1

\* A panic unwinds out of cmd_browse in the middle of the operation.
Panic ==
    /\ pc' = "panicked"
    /\ UNCHANGED <<appVars, git_calls, last_fetch, runVars, envVars>>

\* KeyCode::Char('q') | KeyCode::Esc
KeyQuit ==
    /\ pc = "read"
    /\ \E code \in {"q", "Esc"} : event' = KeyEvent(code, "Press")
    /\ quit
    /\ Track("quit")
    /\ AfterDispatch

\* KeyCode::Down | KeyCode::Char('j')
KeyNext ==
    /\ pc = "read"
    /\ \E code \in {"Down", "j"} : event' = KeyEvent(code, "Press")
    /\ IF NextPanics
       THEN Panic
       ELSE /\ next
            /\ Track("next")
            /\ AfterDispatch

\* KeyCode::Up | KeyCode::Char('k')
KeyPrevious ==
    /\ pc = "read"
    /\ \E code \in {"Up", "k"} : event' = KeyEvent(code, "Press")
    /\ IF PreviousPanics
       THEN Panic
       ELSE /\ previous
            /\ Track("previous")
            /\ AfterDispatch

\* KeyCode::Char('d')
KeyToggleDiff ==
    /\ pc = "read"
    /\ event' = KeyEvent("d", "Press")
    /\ toggle_diff
    /\ Track("toggle_diff")
    /\ AfterDispatch

\* KeyCode::Tab | KeyCode::Enter
KeyToggleFocus ==
    /\ pc = "read"
    /\ \E code \in {"Tab", "Enter"} : event' = KeyEvent(code, "Press")
    /\ toggle_focus
    /\ Track("toggle_focus")
    /\ AfterDispatch

\* KeyCode::PageDown | KeyCode::Char('f')
KeyPageDown ==
    /\ pc = "read"
    /\ \E code \in {"PageDown", "f"} : event' = KeyEvent(code, "Press")
    /\ page_down
    /\ Track("page_down")
    /\ AfterDispatch

\* KeyCode::PageUp | KeyCode::Char('b')
KeyPageUp ==
    /\ pc = "read"
    /\ \E code \in {"PageUp", "b"} : event' = KeyEvent(code, "Press")
    /\ page_up
    /\ Track("page_up")
    /\ AfterDispatch

\* Events the match does not act on: an unbound key, a key that is not a
\* press, an event that is not a key.
IgnoredEvents ==
    {KeyEvent("x", "Press"), ResizeEvent}
    \cup {KeyEvent(code, kind) : code \in KeyCodes, kind \in {"Release", "Repeat"}}

\* An ignored event that scrolls the diff back to its top.
Ignored_ResetScroll ==
    /\ pc = "read"
    /\ event' \in IgnoredEvents
    /\ diff_scroll' = 0
    /\ UNCHANGED <<commits, list_state, diff_mode, diff_lines, focus,
                   should_quit>>
    /\ NoFetch
    /\ UNCHANGED runVars
    /\ AfterDispatch

\* _ => {} and the two ifs around the match
Ignored ==
    /\ pc = "read"
    /\ event' \in IgnoredEvents
    /\ UNCHANGED appVars
    /\ NoFetch
    /\ UNCHANGED runVars
    /\ AfterDispatch

\* disable_raw_mode()?; stdout().execute(LeaveAlternateScreen)?; Ok(())
RestoreTerminal ==
    /\ pc = "restore"
    /\ raw_mode' = FALSE
    /\ alt_screen' = FALSE
    /\ pc' = "done"
    /\ UNCHANGED <<appVars, event, git_calls, last_fetch, runVars, inputVars>>

\* disable_raw_mode()? or execute(LeaveAlternateScreen)? fails: cmd_browse
\* returns the error, the alternate screen still shown.
RestoreFail ==
    /\ pc = "restore"
    /\ \E failing \in {"disable_raw_mode", "LeaveAlternateScreen"} :
          raw_mode' = (failing = "disable_raw_mode")
    /\ alt_screen' = alt_screen
    /\ pc' = "failed"
    /\ UNCHANGED <<appVars, event, git_calls, last_fetch, runVars, inputVars>>

Next ==
    \/ InitialUpdateDiff
    \/ Draw
    \/ DrawFail
    \/ ReadFail
    \/ KeyQuit
    \/ KeyNext
    \/ KeyPrevious
    \/ KeyToggleDiff
    \/ KeyToggleFocus
    \/ KeyPageDown
    \/ KeyPageUp
    \/ Ignored
    \/ RestoreTerminal
    \/ RestoreFail

Spec == Init /\ [][Next]_vars

\* The operations of App driven from App::new on any commit list.
SpecApp == InitApp /\ [][Next]_vars

\* ---------------------------------------------------------------------
\* cmd_browse before App::new: the history and the catalog of commits

MaxLog == 2
MaxDirs == 2

\* Length of the directory names cmd_record creates.
KeyLen == 8

\* The first k characters of s, all of s if it is shorter.
Take(s, k) == SubSeq(s, 1, Min(k, Len(s)))

\* Full hashes of the repository: four commits that agree in their first
\* seven characters, two by two in their first eight.
CommitHashes ==
    {<<"a", "b", "c", "d", "e", "f", "1">> \o <<x, y>> :
        x \in {"1", "2"}, y \in {"1", "2"}}

\* Lengths git may abbreviate a hash to: below, at and above KeyLen.
DisplayLens == {7, 8, 9}

\* One line of git log --oneline for commit h abbreviated to k characters;
\* full is what git rev-parse answers for the abbreviation.
LogLine(h, k) == [sha |-> Take(h, k), full |-> h, message |-> <<"m">>]

\* git abbreviates a hash so that it names one commit only.
Unambiguous(ls) ==
    \A i, j \in 1..Len(ls) :
        i # j => /\ ls[i].full # ls[j].full
                 /\ ~StartsWith(ls[j].full, ls[i].sha)

\* The logs of up to MaxLog commits, every hash abbreviated to one length.
LogLists ==
    {ls \in UNION {[1..n -> {LogLine(h, k) : h \in CommitHashes}] :
                      n \in 0..MaxLog, k \in DisplayLens} : Unambiguous(ls)}

\* Outcome of git log (ok: it ran and succeeded) and of the git rev-parse
\* calls (rev_parse: they succeed).
Histories ==
    {[ok |-> FALSE, rev_parse |-> FALSE, lines |-> <<>>]}
    \cup {[ok |-> TRUE, rev_parse |-> rp, lines |-> ls] :
             rp \in BOOLEAN, ls \in LogLists}

\* The directory cmd_record stores a record for commit_sha in.
RecordKey(commit_sha) == Take(commit_sha, KeyLen)

\* Commit names records have been stored for: full hashes, and shorter
\* names given on the command line.
RecordedCommits ==
    CommitHashes \cup {Take(h, 7) : h \in CommitHashes}

StoreKeys == {RecordKey(c) : c \in RecordedCommits}

\* A record file of the directory named key, written at time t.
RecordFile(key, t) ==
    [ext |-> "toml", parses |-> TRUE,
     record |-> [commit |-> key, what |-> t, timestamp |-> t]]

\* What a directory of the store may hold: two records; a record next to a
\* file that is not a record and one that does not parse; or the directory
\* cannot be read.
StoreDirs(key) ==
    {[name |-> key, readable |-> TRUE,
      files |-> {RecordFile(key, 1), RecordFile(key, 2)}],
     [name |-> key, readable |-> TRUE,
      files |-> {RecordFile(key, 2),
                 [ext |-> "txt", parses |-> FALSE,
                  record |-> [commit |-> key, what |-> 0, timestamp |-> 0]],
                 [ext |-> "toml", parses |-> FALSE,
                  record |-> [commit |-> key, what |-> 0, timestamp |-> 3]]}],
     [name |-> key, readable |-> FALSE, files |-> {}]}

\* .arf/records: absent, unreadable, or a set of directories with distinct
\* names.
Stores ==
    {[state |-> "absent", dirs |-> {}], [state |-> "unreadable", dirs |-> {}]}
    \cup {[state |-> "ok", dirs |-> ds] :
             ds \in {ds \in SUBSET (UNION {StoreDirs(k) : k \in StoreKeys}) :
                        /\ Cardinality(ds) <= MaxDirs
                        /\ \A d, e \in ds : d.name = e.name => d = e}}

\* The orders in which read_dir may enumerate the set S.
Orders(S) ==
    {f \in [1..Cardinality(S) -> S] :
        \A i, j \in 1..Cardinality(S) : f[i] = f[j] => i = j}

\* The test of cmd_browse with only its first half.
Matches_OneWay(dir_name, short_sha) == StartsWith(dir_name, short_sha)

\* The test of cmd_browse on a directory name and a display hash.
Matches(dir_name, short_sha) ==
    StartsWith(dir_name, short_sha) \/ StartsWith(short_sha, dir_name)

\* The records pushed for the files of one directory, enumerated as fs.
RECURSIVE PushRecords(_)
PushRecords(fs) ==
    IF fs = <<>> THEN <<>>
    ELSE (IF fs[1].ext = "toml" /\ fs[1].parses
          THEN <<fs[1].record>> ELSE <<>>) \o PushRecords(Tail(fs))

\* Records taken only from the directory named as the display hash.
DirRecords_ExactName(d, short_sha) ==
    IF d.name = short_sha /\ d.readable
    THEN {PushRecords(fs) : fs \in Orders(d.files)}
    ELSE {<<>>}

\* The record sequences one directory may contribute for short_sha.
DirRecords(d, short_sha) ==
    IF Matches(d.name, short_sha) /\ d.readable
    THEN {PushRecords(fs) : fs \in Orders(d.files)}
    ELSE {<<>>}

\* The record sequences the directories, enumerated as ds, may contribute.
RECURSIVE DirsRecords(_, _)
DirsRecords(ds, short_sha) ==
    IF ds = <<>> THEN {<<>>}
    ELSE {a \o b : a \in DirRecords(ds[1], short_sha),
                   b \in DirsRecords(Tail(ds), short_sha)}

\* The values records may have after the "Find ARF records" block.
FindRecords(st, short_sha) ==
    IF st.state # "ok" THEN {<<>>}
    ELSE UNION {DirsRecords(ds, short_sha) : ds \in Orders(st.dirs)}

\* The CommitInfo values one log line may give.
LineCommits(h, st, line) ==
    {[sha |-> IF h.rev_parse THEN line.full ELSE line.sha,
      short_sha |-> line.sha,
      message |-> line.message,
      records |-> rs] : rs \in FindRecords(st, line.sha)}

\* A catalog that lists the commits oldest first.
RECURSIVE Catalogs_Reversed(_, _, _)
Catalogs_Reversed(h, st, ls) ==
    IF ls = <<>> THEN {<<>>}
    ELSE {cs \o <<c>> : c \in LineCommits(h, st, ls[1]),
                        cs \in Catalogs_Reversed(h, st, Tail(ls))}

\* The values commits may have after the for loop over the log lines ls.
RECURSIVE Catalogs(_, _, _)
Catalogs(h, st, ls) ==
    IF ls = <<>> THEN {<<>>}
    ELSE {<<c>> \o cs : c \in LineCommits(h, st, ls[1]),
                        cs \in Catalogs(h, st, Tail(ls))}

\* cmd_browse has not begun: no App yet, its fields hold placeholders.
InitCatalog ==
    /\ history \in Histories
    /\ store \in Stores
    /\ content = <<>>
    /\ raw_mode = FALSE
    /\ alt_screen = FALSE
    /\ AppNew(<<>>)
    /\ pc = "start"
    /\ Untouched

\* A failing git log taken for an empty history.
GitLogFail_Ignored ==
    /\ pc = "start"
    /\ ~history.ok
    /\ pc' = "loaded"
    /\ UNCHANGED <<appVars, event, git_calls, last_fetch, runVars, envVars>>

\* git log cannot be run, or exits with a failure: Err
GitLogFail ==
    /\ pc = "start"
    /\ ~history.ok
    /\ pc' = "failed"
    /\ UNCHANGED <<appVars, event, git_calls, last_fetch, runVars, envVars>>

\* A catalog that gives up when the store cannot be read.
LoadCatalog_StoreRequired ==
    /\ pc = "start"
    /\ history.ok
    /\ IF store.state = "ok"
       THEN /\ commits' \in Catalogs(history, store, history.lines)
            /\ pc' = "loaded"
       ELSE /\ commits' = commits
            /\ pc' = "failed"
    /\ UNCHANGED <<list_state, diff_mode, diff_lines, diff_scroll, focus,
                   should_quit, event, git_calls, last_fetch, runVars,
                   envVars>>

\* The for loop over the lines of the log.
LoadCatalog ==
    /\ pc = "start"
    /\ history.ok
    /\ commits' \in Catalogs(history, store, history.lines)
    /\ pc' = "loaded"
    /\ UNCHANGED <<list_state, diff_mode, diff_lines, diff_scroll, focus,
                   should_quit, event, git_calls, last_fetch, runVars,
                   envVars>>

\* if commits.is_empty() { println!("No commits found."); return Ok(()); }
NoCommits ==
    /\ pc = "loaded"
    /\ commits = <<>>
    /\ pc' = "done"
    /\ UNCHANGED <<appVars, event, git_calls, last_fetch, runVars, envVars>>

\* A setup that does not look at the commit list.
SetupTerminal_AnyCommits ==
    /\ pc = "loaded"
    /\ list_state' = IF commits # <<>> THEN <<0>> ELSE <<>>
    /\ raw_mode' = TRUE
    /\ alt_screen' = TRUE
    /\ pc' = "new"
    /\ UNCHANGED <<commits, diff_mode, diff_lines, diff_scroll, focus,
                   should_quit, event, git_calls, last_fetch, runVars,
                   inputVars>>

\* The terminal setup succeeds, then App::new(commits).
SetupTerminal ==
    /\ pc = "loaded"
    /\ commits # <<>>
    /\ raw_mode' = TRUE
    /\ alt_screen' = TRUE
    /\ list_state' = <<0>>
    /\ diff_mode' = "Stat"
    /\ diff_lines' = <<>>
    /\ diff_scroll' = 0
    /\ focus' = "Commits"
    /\ should_quit' = FALSE
    /\ pc' = "new"
    /\ UNCHANGED <<commits, event, git_calls, last_fetch, runVars, inputVars>>

\* enable_raw_mode()?, execute(EnterAlternateScreen)? or Terminal::new(..)?
\* fails: cmd_browse returns the error from where it is, with what the
\* calls before the failing one have done to the terminal.
SetupFail ==
    /\ pc = "loaded"
    /\ commits # <<>>
    /\ \E failing \in {"enable_raw_mode", "EnterAlternateScreen",
                        "Terminal::new"} :
          /\ raw_mode' = (failing # "enable_raw_mode")
          /\ alt_screen' = (failing = "Terminal::new")
    /\ pc' = "failed"
    /\ UNCHANGED <<appVars, event, git_calls, last_fetch, runVars, inputVars>>

NextCatalog ==
    \/ GitLogFail
    \/ LoadCatalog
    \/ NoCommits
    \/ SetupTerminal
    \/ SetupFail

\* cmd_browse up to App::new, on every history and store of the bounds.
SpecCatalog == InitCatalog /\ [][NextCatalog]_vars

\* ---------------------------------------------------------------------
\* The classifier of update_diff on its own: content holds a text given by
\* its lines, the line ending in use and whether the last line is ended.

MaxTextLines == 2

LineHeads ==
    {<<>>, <<"+">>, <<"+", "+">>, <<"+", "+", "+">>,
     <<"-">>, <<"-", "-">>, <<"-", "-", "-">>,
     <<"@">>, <<"@", "@">>,
     <<"d", "i", "f", "f">>, <<"d", "i", "f", "f", " ">>,
     <<"i", "n", "d", "e", "x">>, <<"i", "n", "d", "e", "x", " ">>,
     <<" ">>}
LineTails == {<<>>, <<"a">>}

\* Lines with every prefix the classifier tests, complete and incomplete.
SampleLines == {h \o t : h \in LineHeads, t \in LineTails}

\* The lines of "+++ b/a.txt\n+added\n-removed\n@@ -1,1 +1,1 @@\n"
ExampleLines ==
    <<
       <<"+", "+", "+", " ", "b", "/", "a", ".", "t", "x", "t">>,
       <<"+", "a", "d", "d", "e", "d">>,
       <<"-", "r", "e", "m", "o", "v", "e", "d">>,
       <<"@", "@", " ", "-", "1", ",", "1", " ", "+", "1", ",", "1", " ", "@", "@">>
    >>

LineSeqs(n) == UNION {[1..k -> SampleLines] : k \in 0..n}

TextInputs ==
    {[lines |-> ls, eol |-> e, ended |-> f] :
        ls \in LineSeqs(MaxTextLines) \cup {ExampleLines},
        e \in {<<"\n">>, <<"\r", "\n">>},
        f \in BOOLEAN}

\* The text: each line followed by the line ending, the last one only if
\* the text is ended.
RECURSIVE JoinLines(_, _, _)
JoinLines(ls, eol, ended) ==
    IF ls = <<>> THEN <<>>
    ELSE IF Len(ls) = 1 THEN ls[1] \o (IF ended THEN eol ELSE <<>>)
    ELSE ls[1] \o eol \o JoinLines(Tail(ls), eol, ended)

TextOf(c) == JoinLines(c.lines, c.eol, c.ended)

\* A text whose last line is not ended has a last line, and it is not empty.
InitParse ==
    /\ content \in TextInputs
    /\ content.ended \/ (content.lines # <<>>
                          /\ content.lines[Len(content.lines)] # <<>>)
    /\ content.lines = <<>> => (content.ended /\ content.eol = <<"\n">>)
    /\ AppNew(<<>>)
    /\ pc = "parse"
    /\ Untouched
    /\ history = NoHistory
    /\ store = NoStore
    /\ raw_mode = FALSE
    /\ alt_screen = FALSE

\* for line in content.lines() { ... self.diff_lines.push(..) }
ParseContent ==
    /\ pc = "parse"
    /\ diff_lines' = ParseLines(TextOf(content))
    /\ pc' = "parsed"
    /\ UNCHANGED <<commits, list_state, diff_mode, diff_scroll, focus,
                   should_quit, event, git_calls, last_fetch, runVars,
                   envVars>>

NextParse == ParseContent

SpecParse == InitParse /\ [][NextParse]_vars

\* ---------------------------------------------------------------------
\* cmd_browse as a whole: the catalog, then the session

\* A few histories: git log fails, no commit, one commit, two commits.
BrowseHistories ==
    {[ok |-> FALSE, rev_parse |-> FALSE, lines |-> <<>>],
     [ok |-> TRUE, rev_parse |-> TRUE, lines |-> <<>>],
     [ok |-> TRUE, rev_parse |-> TRUE,
      lines |-> <<LogLine(<<"a", "b", "c", "d", "e", "f", "1", "1", "1">>, 8)>>],
     [ok |-> TRUE, rev_parse |-> TRUE,
      lines |-> <<LogLine(<<"a", "b", "c", "d", "e", "f", "1", "2", "1">>, 9),
                  LogLine(<<"a", "b", "c", "d", "e", "f", "1", "1", "2">>, 8)>>]}

\* A few stores: absent, unreadable, one directory with two records.
BrowseStores ==
    {[state |-> "absent", dirs |-> {}],
     [state |-> "unreadable", dirs |-> {}],
     [state |-> "ok",
      dirs |-> {[name |-> <<"a", "b", "c", "d", "e", "f", "1", "1">>,
                 readable |-> TRUE,
                 files |-> {RecordFile(<<"a", "b", "c", "d", "e", "f", "1",
                                         "1">>, 1),
                            RecordFile(<<"a", "b", "c", "d", "e", "f", "1",
                                         "1">>, 2)}]}]}

InitBrowse ==
    /\ history \in BrowseHistories
    /\ store \in BrowseStores
    /\ content = <<>>
    /\ raw_mode = FALSE
    /\ alt_screen = FALSE
    /\ AppNew(<<>>)
    /\ pc = "start"
    /\ Untouched

NextBrowse ==
    \/ GitLogFail
    \/ LoadCatalog
    \/ NoCommits
    \/ SetupTerminal
    \/ SetupFail
    \/ InitialUpdateDiff
    \/ Draw
    \/ DrawFail
    \/ ReadFail
    \/ KeyQuit
    \/ KeyNext
    \/ KeyPrevious
    \/ KeyToggleDiff
    \/ KeyToggleFocus
    \/ KeyPageDown
    \/ KeyPageUp
    \/ Ignored
    \/ RestoreTerminal
    \/ RestoreFail

SpecBrowse == InitBrowse /\ [][NextBrowse]_vars

\* ---------------------------------------------------------------------
\* Shape of the state

TypeOK ==
    /\ list_state \in {<<>>} \cup {<<i>> : i \in 0..MaxCommits}
    /\ diff_mode \in {"Hidden", "Stat", "Full"}
    /\ diff_scroll \in Nat
    /\ focus \in {"Commits", "Diff"}
    /\ should_quit \in BOOLEAN
    /\ raw_mode \in BOOLEAN
    /\ alt_screen \in BOOLEAN
    /\ pc \in {"start", "loaded", "new", "draw", "read", "restore", "done",
              "failed", "panicked", "parse", "parsed"}

\* ---------------------------------------------------------------------
\* Vocabulary of the properties

\* LineKind of a line by the priority rule of the classifier's contract.
SpecKind(line) ==
    IF \/ StartsWith(line, <<"d", "i", "f", "f", " ">>)
       \/ StartsWith(line, <<"i", "n", "d", "e", "x", " ">>)
    THEN "FileHeader"
    ELSE IF \/ StartsWith(line, <<"+", "+", "+">>)
            \/ StartsWith(line, <<"-", "-", "-">>)
    THEN "FileHeader"
    ELSE IF StartsWith(line, <<"@", "@">>) THEN "HunkHeader"
    ELSE IF StartsWith(line, <<"+">>) THEN "Added"
    ELSE IF StartsWith(line, <<"-">>) THEN "Removed"
    ELSE "Plain"

\* LineKind a style stands for.
KindOfStyle(style) ==
    CASE style.fg = "Green" -> "Added"
      [] style.fg = "Red" -> "Removed"
      [] style.fg = "Cyan" -> "HunkHeader"
      [] style.fg = "Yellow" -> "FileHeader"
      [] OTHER -> "Plain"

\* The changeset request for commit number i (0-based) of cs under mode.
RequestFor(cs, i, mode) ==
    IF mode = "Stat"
    THEN <<"show", "--stat", "--format=", cs[i + 1].sha>>
    ELSE <<"show", "--format=", cs[i + 1].sha>>

\* lines is the classified changeset of commit i of cs under mode, as the
\* most recent fetch, fetch, delivered it: nothing when the pane is hidden,
\* the one-line failure message when the fetch failed, else a line of the
\* right kind for each line of the text.
LinesAreFor(lines, fetch, cs, i, mode) ==
    IF mode = "Hidden"
    THEN lines = <<>>
    ELSE /\ fetch # <<>>
         /\ fetch[1].args = RequestFor(cs, i, mode)
         /\ IF fetch[1].output.ok /\ fetch[1].output.success
            THEN LET ls == Lines(fetch[1].output.stdout)
                 IN  /\ Len(lines) = Len(ls)
                     /\ \A k \in 1..Len(ls) :
                            /\ lines[k].content = ls[k]
                            /\ KindOfStyle(lines[k].style) = SpecKind(ls[k])
            ELSE /\ Len(lines) = 1
                 /\ lines[1].content = FailedToGetDiff
                 /\ KindOfStyle(lines[1].style) = "Plain"

\* The step reads a key press with one of the codes.
Pressed(codes) ==
    /\ pc = "read"
    /\ event' \in {KeyEvent(code, "Press") : code \in codes}

\* The last event read was a press of one of the codes.
WasPressed(codes) == event \in {KeyEvent(code, "Press") : code \in codes}

\* ---------------------------------------------------------------------
\* Properties

\* C1: in every reachable state 0 <= diff_scroll < max(1, len(diff_lines)),
\* also after a regeneration that yields fewer or zero lines.
C1_ClampInvariant ==
    /\ 0 <= diff_scroll
    /\ diff_scroll < Max(1, Len(diff_lines))

\* page_down has stopped at the last line of a diff shorter than a page.
C1_Witness ==
    /\ WasPressed({"PageDown", "f"})
    /\ focus = "Diff"
    /\ Len(diff_lines) > 1
    /\ Len(diff_lines) <= PageStep
    /\ diff_scroll = Len(diff_lines) - 1

\* C2: in every reachable state, focus = Diff implies diff_mode # Hidden.
C2_FocusDiffNotHidden == focus = "Diff" => diff_mode # "Hidden"

\* toggle_diff has acted while the diff pane had the focus.
C2_Witness ==
    /\ WasPressed({"d"})
    /\ focus = "Diff"
    /\ diff_mode = "Full"

\* C3: at every redraw diff_lines is the classified changeset of the
\* selected commit under the current mode, as delivered by the most recent
\* fetch, which was made for that commit and that mode.
C3_LinesOfSelection ==
    pc = "draw" =>
        /\ list_state # <<>>
        /\ LinesAreFor(diff_lines, last_fetch, commits, list_state[1],
                       diff_mode)

\* previous has moved the selection to another commit and the full patch of
\* that commit is about to be drawn.
C3_Witness ==
    /\ pc = "draw"
    /\ WasPressed({"Up", "k"})
    /\ focus = "Commits"
    /\ diff_mode = "Full"
    /\ list_state = <<1>>
    /\ Len(diff_lines) > 1

\* C4: whenever the commit sequence is non-empty the selection is Some(i)
\* with 0 <= i < number of commits.
C4_SelectionValid ==
    commits # <<>> =>
        /\ Len(list_state) = 1
        /\ 0 <= list_state[1]
        /\ list_state[1] < Len(commits)

\* next has wrapped from the last commit to the first.
C4_Witness ==
    /\ WasPressed({"Down", "j"})
    /\ focus = "Commits"
    /\ Len(commits) >= 2
    /\ list_state = <<0>>

\* C5: with focus = Commits and commits non-empty, next moves the selection
\* from i to (i + 1) mod count and previous to (i - 1) mod count; both set
\* diff_scroll to 0, regenerate diff_lines for the new selection under the
\* unchanged mode, and leave focus and diff_mode unchanged.
C5_MoveSelection ==
    [][(/\ Pressed({"Down", "j", "Up", "k"})
        /\ focus = "Commits"
        /\ commits # <<>>)
       => LET n == Len(commits)
              i == list_state[1]
              j == IF event'.code \in {"Down", "j"}
                   THEN (i + 1) % n
                   ELSE (i + n - 1) % n
          IN  /\ list_state' = <<j>>
              /\ diff_scroll' = 0
              /\ focus' = focus
              /\ diff_mode' = diff_mode
              /\ LinesAreFor(diff_lines', last_fetch', commits, j, diff_mode)
              /\ git_calls' = IF diff_mode = "Hidden"
                              THEN <<>>
                              ELSE <<RequestFor(commits, j, diff_mode)>>
      ]_vars

\* previous has wrapped from the first commit to the last of three or more.
C5_Witness ==
    /\ WasPressed({"Up", "k"})
    /\ focus = "Commits"
    /\ Len(commits) >= 3
    /\ list_state = <<Len(commits) - 1>>
    /\ diff_scroll = 0

\* C6: after next has been applied count times in a row (count = number of
\* commits) the selection is the one it was before the first application.
C6_NextCircular ==
    (run_op = "next" /\ run_len = 0) => list_state = run_start.selected

\* a full round of next over three or more commits that began at commit 1.
C6_Witness ==
    /\ run_op = "next"
    /\ run_len = 0
    /\ focus = "Commits"
    /\ Len(commits) >= 3
    /\ list_state = <<1>>

\* C7 as stated: with focus = Diff, next sets diff_scroll to
\* min(diff_scroll + 1, len(diff_lines) - 1) and previous to
\* max(diff_scroll - 1, 0); both leave selection, mode, focus and lines
\* unchanged and fetch nothing.
C7_Original ==
    [][(Pressed({"Down", "j", "Up", "k"}) /\ focus = "Diff")
       => /\ diff_scroll' = IF event'.code \in {"Down", "j"}
                            THEN Min(diff_scroll + 1, Len(diff_lines) - 1)
                            ELSE Max(diff_scroll - 1, 0)
          /\ UNCHANGED <<list_state, diff_mode, focus, diff_lines>>
          /\ git_calls' = <<>>
          /\ last_fetch' = last_fetch
      ]_vars

\* C7 (amended): with focus = Diff, next sets diff_scroll to
\* min(diff_scroll + 1, max(0, len(diff_lines) - 1)), so it stays 0 on an
\* empty diff, and previous sets it to max(diff_scroll - 1, 0); both leave
\* selection, mode, focus and lines unchanged and fetch nothing.
C7_ScrollByOne ==
    [][(Pressed({"Down", "j", "Up", "k"}) /\ focus = "Diff")
       => /\ diff_scroll' =
                IF event'.code \in {"Down", "j"}
                THEN Min(diff_scroll + 1, Max(0, Len(diff_lines) - 1))
                ELSE Max(diff_scroll - 1, 0)
          /\ UNCHANGED <<list_state, diff_mode, focus, diff_lines>>
          /\ git_calls' = <<>>
          /\ last_fetch' = last_fetch
      ]_vars

\* next has acted on a focused diff pane that shows no line.
C7_Witness ==
    /\ WasPressed({"Down", "j"})
    /\ focus = "Diff"
    /\ diff_lines = <<>>
    /\ diff_scroll = 0

\* C8: page_down and page_up change only diff_scroll and only when
\* focus = Diff: page_down sets it to
\* min(diff_scroll + 10, max(0, len(diff_lines) - 1)), page_up to
\* max(diff_scroll - 10, 0); with focus = Commits the state is unchanged.
C8_Page ==
    [][Pressed({"PageDown", "f", "PageUp", "b"})
       => /\ diff_scroll' =
                IF focus # "Diff" THEN diff_scroll
                ELSE IF event'.code \in {"PageDown", "f"}
                THEN Min(diff_scroll + 10, Max(0, Len(diff_lines) - 1))
                ELSE Max(diff_scroll - 10, 0)
          /\ UNCHANGED <<commits, list_state, diff_mode, diff_lines, focus,
                         should_quit>>
          /\ git_calls' = <<>>
          /\ last_fetch' = last_fetch
      ]_vars

\* page_up has moved a focused diff pane from line 11 up to line 1.
C8_Witness ==
    /\ WasPressed({"PageUp", "b"})
    /\ focus = "Diff"
    /\ Len(diff_lines) > 11
    /\ diff_scroll = 1

\* C9: toggle_diff advances diff_mode in the cycle Hidden -> Stat -> Full ->
\* Hidden, and after three applications in a row diff_mode is what it was
\* before the first.
C9_ModeCycle ==
    /\ [][Pressed({"d"})
          => diff_mode' = CASE diff_mode = "Hidden" -> "Stat"
                            [] diff_mode = "Stat" -> "Full"
                            [] diff_mode = "Full" -> "Hidden"
         ]_vars
    /\ []((run_op = "toggle_diff" /\ run_len = 0)
          => diff_mode = run_start.mode)

\* three toggle_diff in a row that began, and ended, in Full.
C9_Witness ==
    /\ run_op = "toggle_diff"
    /\ run_len = 0
    /\ run_start.mode = "Full"
    /\ diff_mode = "Full"

\* C10: every toggle_diff sets diff_scroll to 0 and regenerates diff_lines
\* for the current selection under the new mode; it sets focus to Commits
\* when the new mode is Hidden and leaves focus unchanged otherwise; it
\* never changes the selection.
C10_ToggleDiff ==
    [][Pressed({"d"})
       => /\ diff_scroll' = 0
          /\ list_state' = list_state
          /\ list_state # <<>>
          /\ LinesAreFor(diff_lines', last_fetch', commits, list_state[1],
                         diff_mode')
          /\ git_calls' = IF diff_mode' = "Hidden"
                          THEN <<>>
                          ELSE <<RequestFor(commits, list_state[1],
                                            diff_mode')>>
          /\ focus' = IF diff_mode' = "Hidden" THEN "Commits" ELSE focus
      ]_vars

\* toggle_diff has hidden the pane: no line, focus on the commit list.
C10_Witness ==
    /\ WasPressed({"d"})
    /\ diff_mode = "Hidden"
    /\ focus = "Commits"
    /\ diff_lines = <<>>
    /\ list_state = <<1>>

\* C11: toggle_focus leaves the whole session state unchanged when
\* diff_mode = Hidden; otherwise it swaps focus between Commits and Diff and
\* leaves selection, mode, lines, scroll and the quit flag unchanged.
C11_ToggleFocus ==
    [][Pressed({"Tab", "Enter"})
       => /\ focus' = IF diff_mode = "Hidden" THEN focus
                      ELSE IF focus = "Commits" THEN "Diff" ELSE "Commits"
          /\ UNCHANGED <<commits, list_state, diff_mode, diff_lines,
                         diff_scroll, should_quit>>
          /\ git_calls' = <<>>
          /\ last_fetch' = last_fetch
      ]_vars

\* toggle_focus has acted on a hidden diff pane.
C11_Witness ==
    /\ WasPressed({"Tab", "Enter"})
    /\ diff_mode = "Hidden"
    /\ focus = "Commits"

\* The step has run a changeset fetch, and the fetch failed.
FetchFailed ==
    /\ git_calls' # <<>>
    /\ ~(last_fetch'[1].output.ok /\ last_fetch'[1].output.success)

\* C14: when the fetch of a diff regeneration fails, diff_lines becomes
\* exactly one Plain line carrying a message; selection, focus, mode, scroll
\* and quit flag are what the operation makes them whatever the fetch
\* returns, and the session goes on to redraw and read input.
C14_FetchFailureDegraded ==
    [][FetchFailed
       => /\ Len(diff_lines') = 1
          /\ KindOfStyle(diff_lines'[1].style) = "Plain"
          /\ diff_lines'[1].content # <<>>
          /\ list_state' =
                IF Pressed({"Down", "j"})
                THEN <<(list_state[1] + 1) % Len(commits)>>
                ELSE IF Pressed({"Up", "k"})
                THEN <<(list_state[1] + Len(commits) - 1) % Len(commits)>>
                ELSE list_state
          /\ diff_mode' =
                IF Pressed({"d"})
                THEN (IF diff_mode = "Hidden" THEN "Stat" ELSE "Full")
                ELSE diff_mode
          /\ focus' = focus
          /\ diff_scroll' = 0
          /\ should_quit' = FALSE
          /\ pc' = "draw"
      ]_vars

\* after a failed fetch the message has been drawn and the loop waits for
\* the next event.
C14_Witness ==
    /\ pc = "read"
    /\ last_fetch # <<>>
    /\ ~last_fetch[1].output.success
    /\ Len(diff_lines) = 1
    /\ diff_lines[1].content = FailedToGetDiff
    /\ list_state = <<1>>

\* C12: every session operation is defined in every state (no panic, no
\* index out of range, no underflow); on an empty commit sequence next and
\* previous leave the state unchanged, and the selection stays none.
C12_TotalOperations ==
    /\ [](pc # "panicked")
    /\ [](diff_scroll >= 0)
    /\ [](commits = <<>> => list_state = <<>>)
    /\ [][(Pressed({"Down", "j", "Up", "k"}) /\ commits = <<>>
           /\ focus = "Commits")
          => /\ UNCHANGED appVars
             /\ git_calls' = <<>>
             /\ last_fetch' = last_fetch
         ]_vars

\* next has acted on an App that holds no commit.
C12_Witness ==
    /\ WasPressed({"Down", "j"})
    /\ commits = <<>>
    /\ list_state = <<>>
    /\ focus = "Commits"
    /\ diff_mode = "Full"
    /\ pc = "draw"

\* C15: the classifier yields one line per input line, in order, with the
\* text unchanged and the kind the priority rule of the contract gives
\* (diff/index, then +++/---, then @@, then +, then -, else Plain), although
\* the code tests + and - first; the example text yields FileHeader, Added,
\* Removed, HunkHeader.
C15_Classifier ==
    pc = "parsed" =>
        /\ Len(diff_lines) = Len(content.lines)
        /\ \A k \in 1..Len(content.lines) :
              /\ diff_lines[k].content = content.lines[k]
              /\ KindOfStyle(diff_lines[k].style) = SpecKind(content.lines[k])
        /\ content.lines = ExampleLines =>
              [k \in 1..4 |-> KindOfStyle(diff_lines[k].style)]
                  = <<"FileHeader", "Added", "Removed", "HunkHeader">>

\* the example text has been classified.
C15_Witness ==
    /\ pc = "parsed"
    /\ content.lines = ExampleLines
    /\ content.ended
    /\ Len(diff_lines) = 4

\* p is a prefix of s.
IsPrefix(p, s) ==
    /\ Len(p) <= Len(s)
    /\ \A k \in 1..Len(p) : p[k] = s[k]

\* The directories of the store that hold a record cmd_browse can read.
Groups ==
    IF store.state # "ok" THEN {}
    ELSE {d \in store.dirs :
            d.readable /\ \E f \in d.files : f.ext = "toml" /\ f.parses}

\* The names of the groups that have a record under commit c.
AttachedTo(c) == {c.records[k].commit : k \in 1..Len(c.records)}

\* The catalog has been built.
Loaded == pc # "start" /\ history.ok

\* C16: the catalog attaches a group to a commit if and only if the group
\* key is a prefix of the commit's full hash or the commit's display hash
\* is a prefix of the key; the display hash is a prefix of the full hash.
C16_MatchingRule ==
    Loaded =>
        \A i \in 1..Len(commits) :
            /\ IsPrefix(commits[i].short_sha, commits[i].sha)
            /\ \A d \in Groups :
                  (d.name \in AttachedTo(commits[i]))
                  <=> \/ IsPrefix(d.name, commits[i].sha)
                      \/ IsPrefix(commits[i].short_sha, d.name)

\* a group whose key is shorter than the display hash has been attached.
C16_Witness ==
    /\ Loaded
    /\ \E i \in 1..Len(commits) :
          /\ Len(commits[i].short_sha) = 8
          /\ Len(commits[i].sha) = 9
          /\ \E key \in AttachedTo(commits[i]) : Len(key) = 7

\* C17: at most one group is attached per commit, and no group is attached
\* to two different commits.
C17_OneGroupPerCommit ==
    Loaded =>
        /\ \A i \in 1..Len(commits) : Cardinality(AttachedTo(commits[i])) <= 1
        /\ \A i, j \in 1..Len(commits) :
              i # j => AttachedTo(commits[i]) \cap AttachedTo(commits[j]) = {}

\* C18: within every CommitInfo of the catalog the records are in ascending
\* order of timestamp, whatever the order of enumeration.
C18_RecordsSorted ==
    Loaded =>
        \A i \in 1..Len(commits) :
            \A k \in 1..(Len(commits[i].records) - 1) :
                commits[i].records[k].timestamp
                    <= commits[i].records[k + 1].timestamp

\* The history query succeeded and delivered no commit.
EmptyHistory == history.ok /\ history.lines = <<>>

\* C13 as stated: on an empty commit sequence the session still starts and
\* stays alive until a quit event, so browse ends only after a quit.
C13_Original ==
    (EmptyHistory /\ pc = "done") => should_quit

\* C13 (amended): on an empty commit sequence browse returns successfully
\* right after building the catalog; no session starts: no App is created,
\* nothing is drawn and no event is read.
C13_EmptyHistoryReturns ==
    (EmptyHistory /\ pc # "start") =>
        /\ pc \in {"loaded", "done"}
        /\ commits = <<>>
        /\ list_state = <<>>
        /\ event = NoEvent
        /\ git_calls = <<>>
        /\ ~should_quit

\* browse has returned on an empty history.
C13_Witness ==
    /\ EmptyHistory
    /\ pc = "done"
    /\ store.state = "ok"

\* The CommitInfo the catalog is to hold for a log line, but for its records.
SameCommit(c, line) ==
    /\ c.short_sha = line.sha
    /\ c.sha = line.full
    /\ c.message = line.message

\* C19: the catalog holds exactly one CommitInfo per commit of the history,
\* in the order delivered, and no operation of the session changes the
\* commit sequence after load.
C19_CatalogOrderAndFrame ==
    /\ [](Loaded =>
            /\ Len(commits) = Len(history.lines)
            /\ \A i \in 1..Len(commits) :
                  SameCommit(commits[i], history.lines[i]))
    /\ [][pc # "start" => commits' = commits]_vars

\* a session over two commits has moved the selection.
C19_Witness ==
    /\ Len(commits) = 2
    /\ WasPressed({"Down", "j"})
    /\ list_state = <<1>>
    /\ commits[2].records # <<>>
    /\ pc = "draw"

\* The record store is absent or unreadable.
NoUsableStore == store.state \in {"absent", "unreadable"}

\* C20: with the store absent or unreadable the construction of the catalog
\* does not fail, every CommitInfo has no record, and the session is not
\* ended by it.
C20_StoreDegrades ==
    /\ []((NoUsableStore /\ Loaded) =>
            \A i \in 1..Len(commits) : commits[i].records = <<>>)
    /\ [][(NoUsableStore /\ pc = "start" /\ history.ok)
          => /\ pc' = "loaded"
             /\ Len(commits') = Len(history.lines)
         ]_vars

\* a session over an unreadable store shows a diff and reads input.
C20_Witness ==
    /\ store.state = "unreadable"
    /\ pc = "read"
    /\ Len(commits) = 2
    /\ diff_mode = "Full"
    /\ diff_lines # <<>>

\* C21: when the history query fails browse ends with an error at once: the
\* terminal is never put into raw mode or on the alternate screen, no frame
\* is drawn, no event is read and no App is created.
C21_HistoryFailureIsFatal ==
    /\ [](~history.ok =>
            /\ pc \in {"start", "failed"}
            /\ ~raw_mode
            /\ ~alt_screen
            /\ commits = <<>>
            /\ list_state = <<>>
            /\ event = NoEvent
            /\ last_fetch = <<>>
            /\ ~should_quit)
    /\ [][(~history.ok /\ pc = "start") => pc' = "failed"]_vars

\* browse has returned the error of the history query.
C21_Witness ==
    /\ ~history.ok
    /\ pc = "failed"
    /\ store.state = "ok"

\* The loop has read an event and dispatched it.
Dispatched == pc = "read" /\ pc' \in {"draw", "restore", "panicked"}

\* The step is one operation of App run to its end, or none.
OneTransition ==
    \/ quit
    \/ next
    \/ previous
    \/ toggle_diff
    \/ toggle_focus
    \/ page_down
    \/ page_up
    \/ (UNCHANGED appVars /\ NoFetch)

\* C22: every event read is followed by at most one operation, complete
\* with its fetch, and then by a redraw (or the end of the loop) before the
\* next read; an event is read only right after a redraw, a redraw changes
\* no state, and the frame drawn shows the lines of the selection and mode.
C22_LoopOrdering ==
    /\ [][Dispatched
          => /\ OneTransition
             /\ Len(git_calls') <= 1
             /\ pc' # "read"
             /\ (pc' = "draw" =>
                    /\ list_state' # <<>>
                    /\ LinesAreFor(diff_lines', last_fetch', commits',
                                   list_state'[1], diff_mode'))
         ]_vars
    /\ [][pc' = "read" => (pc = "draw" /\ UNCHANGED appVars)]_vars
    /\ [][pc = "draw" => pc' \in {"read", "failed"}]_vars

\* a key that made a fetch has been dispatched and the redraw is next.
C22_Witness ==
    /\ pc = "draw"
    /\ WasPressed({"Down", "j"})
    /\ list_state = <<1>>
    /\ Len(git_calls) = 1
    /\ diff_lines # <<>>

\* cmd_browse with the break of the loop followed by the calls after it.
SpecLive == Spec /\ WF_vars(RestoreTerminal \/ RestoreFail)

\* C23: a quit key only sets should_quit, leaving selection, focus, mode,
\* lines and scroll as they are and fetching nothing; the flag is tested
\* after each dispatch and sends the loop to its end; once it is set no
\* event is read and no operation applied any more, and browse returns, with
\* raw mode off and the alternate screen left when it returns Ok.
C23_Quit ==
    /\ [][Pressed({"q", "Esc"})
          => /\ should_quit'
             /\ UNCHANGED <<commits, list_state, focus, diff_mode,
                            diff_lines, diff_scroll>>
             /\ git_calls' = <<>>
         ]_vars
    /\ [][(Dispatched /\ pc' # "panicked") =>
            pc' = IF should_quit' THEN "restore" ELSE "draw"]_vars
    /\ [](should_quit => pc \in {"restore", "done", "failed"})
    /\ [][should_quit => UNCHANGED <<appVars, event, git_calls>>]_vars
    /\ []((should_quit /\ pc = "done") => (~raw_mode /\ ~alt_screen))
    /\ (should_quit ~> pc \in {"done", "failed"})

\* browse has returned after a quit key pressed with the diff focused.
C23_Witness ==
    /\ should_quit
    /\ pc = "done"
    /\ WasPressed({"q", "Esc"})
    /\ focus = "Diff"
    /\ diff_scroll > 0
    /\ ~raw_mode

\* No event has been dispatched yet and the first frame is about to be drawn.
BeforeFirstFrame == pc = "draw" /\ event = NoEvent

\* C24: the session starts with focus on the commit list, mode Stat, scroll
\* 0, the quit flag false and commit 0 selected; the first frame is drawn
\* only after the lines of commit 0 in Stat mode have been generated.
C24_InitialState ==
    /\ [](pc = "new" =>
            /\ commits # <<>>
            /\ list_state = <<0>>
            /\ focus = "Commits"
            /\ diff_mode = "Stat"
            /\ diff_scroll = 0
            /\ ~should_quit)
    /\ [](BeforeFirstFrame =>
            /\ list_state = <<0>>
            /\ focus = "Commits"
            /\ diff_mode = "Stat"
            /\ diff_scroll = 0
            /\ ~should_quit
            /\ git_calls = <<RequestFor(commits, 0, "Stat")>>
            /\ LinesAreFor(diff_lines, last_fetch, commits, 0, "Stat"))
    /\ [][pc = "new" => pc' = "draw"]_vars

\* the first frame of a session over two commits is about to be drawn.
C24_Witness ==
    /\ BeforeFirstFrame
    /\ Len(commits) = 2
    /\ Len(diff_lines) > 1
    /\ raw_mode
    /\ alt_screen

\* The key codes the match of the loop has an arm for.
BoundCodes ==
    {"q", "Esc", "Down", "j", "Up", "k", "d", "Tab", "Enter", "PageDown",
     "f", "PageUp", "b"}

\* The event is not a press of a bound key.
Unrecognized(e) ==
    e.type # "Key" \/ e.kind # "Press" \/ e.code \notin BoundCodes

\* C25: an event that is not a press of a bound key leaves the whole
\* session state unchanged and fetches nothing; a press of a bound key runs
\* the operation bound to it and nothing else.
C25_Dispatch ==
    [][(Dispatched /\ pc' # "panicked")
       => /\ Unrecognized(event') =>
                (UNCHANGED appVars /\ git_calls' = <<>>
                 /\ UNCHANGED last_fetch)
          /\ Pressed({"q", "Esc"}) => quit
          /\ Pressed({"Down", "j"}) => next
          /\ Pressed({"Up", "k"}) => previous
          /\ Pressed({"d"}) => toggle_diff
          /\ Pressed({"Tab", "Enter"}) => toggle_focus
          /\ Pressed({"PageDown", "f"}) => page_down
          /\ Pressed({"PageUp", "b"}) => page_up
          /\ (Unrecognized(event') \/ Pressed(BoundCodes))
      ]_vars

\* a key release has been ignored while the diff was scrolled.
C25_Witness ==
    /\ pc = "draw"
    /\ event = KeyEvent("j", "Release")
    /\ focus = "Diff"
    /\ diff_scroll > 0
    /\ git_calls = <<>>

\* C26: whenever the mode is Hidden there is no diff line and the scroll is
\* 0; no step that ends in mode Hidden issues a fetch, and next and
\* previous still move the selection there.
C26_HiddenPane ==
    /\ [](diff_mode = "Hidden" => (diff_lines = <<>> /\ diff_scroll = 0))
    /\ [][diff_mode' = "Hidden"
          => (git_calls' = <<>> /\ UNCHANGED last_fetch)]_vars
    /\ [][(diff_mode = "Hidden" /\ Pressed({"Down", "j", "Up", "k"})
           /\ Len(commits) > 1)
          => (list_state' # list_state /\ diff_mode' = "Hidden")]_vars

\* next has moved the selection with the pane hidden.
C26_Witness ==
    /\ diff_mode = "Hidden"
    /\ WasPressed({"Down", "j"})
    /\ list_state = <<1>>
    /\ pc = "draw"

\* browse has returned and the calls that restore the terminal, if they
\* were reached, did not fail themselves.
Returned ==
    /\ pc \in {"done", "failed"}
    /\ ~(should_quit /\ pc = "failed")

\* C27: on every path by which browse returns, raw mode is off and the
\* alternate screen has been left.
C27_TerminalRestored ==
    Returned => (~raw_mode /\ ~alt_screen)

\* C28: a record stored for a commit under the first KeyLen characters of
\* its full hash is attached by browse to that commit, whatever the length
\* of the display hash.
C28_RecordThenBrowse ==
    Loaded =>
        /\ Len(commits) = Len(history.lines)
        /\ \A i \in 1..Len(commits) :
              \A d \in Groups :
                  d.name = RecordKey(history.lines[i].full)
                      => d.name \in AttachedTo(commits[i])

\* a record stored under 8 characters is attached to its commit, displayed
\* with 9 characters.
C28_Witness ==
    /\ Loaded
    /\ \E i \in 1..Len(commits) :
          /\ Len(commits[i].short_sha) = 9
          /\ RecordKey(history.lines[i].full) \in AttachedTo(commits[i])
          /\ Len(RecordKey(history.lines[i].full)) = KeyLen

====
